---- MODULE Spec2Model ----
(***************************************************************************)
(* Magic partitioning: magic_partition(h, n) walks a complete binary tree  *)
(* of s = 2^k leaves with bits drawn from bit_function_B and resamples,    *)
(* at a retry offset t, whenever the high half lands on a leaf >= n.       *)
(*                                                                         *)
(* The mixing hash (MurmurHash3) is outside the repository.  It is         *)
(* modelled as an arbitrary but fixed function: oracle[h] records the bits *)
(* of H(y, h) that some call has already looked at, and a bit that no call *)
(* has looked at yet is fixed, to 0 or to 1, by the first read of it.      *)
(***************************************************************************)
EXTENDS Integers, Sequences, FiniteSets, TLC

(***************************************************************************)
(* Bounds of the model.                                                    *)
(***************************************************************************)
\* partition counts 0..MaxN are tried (n + 1 included for the expansion)
MaxN == 6
\* fingerprints 0..MaxSeed
MaxSeed == 1
\* a call draws at most MaxAttempts fresh sub-streams after the first
MaxAttempts == 2
\* width in bits of one field of the hash input.  The source packs the
\* block index into 4 bytes (32 bits); 2^32 is beyond the integers of the
\* model checker, so the field is scaled down and LargeN scales with it.
FieldBits == 4
\* the retry bound of the claim about bounded retries ("e.g. 64")
RetryBound == 64
\* depth to which a call is followed against a constant oracle
StuckAttempts == 66

(***************************************************************************)
(* Program constants.                                                      *)
(***************************************************************************)
\* o // 32 and o % 32 in bit_function_B
BitsPerBlock == 32
\* n < 2 is rejected
MinPartitions == 2

RECURSIVE Pow2(_)
Pow2(e) == IF e <= 0 THEN 1 ELSE 2 * Pow2(e - 1)

\* int.bit_length()
RECURSIVE bit_length(_)
bit_length(x) == IF x <= 0 THEN 0 ELSE 1 + bit_length(x \div 2)

\* largest value y.to_bytes(4, 'little') accepts (scaled, see FieldBits)
FieldMax == Pow2(FieldBits) - 1

\* the smallest n whose root position s - 1 has a block index > FieldMax
\* (2^37 + 1 at the width of the source)
LargeN == Pow2(FieldBits) * BitsPerBlock + 1

Calls == {1, 2}
Seeds == 0..MaxSeed
NValues == (0..MaxN) \cup {LargeN}
\* "not yet assigned" (None)
NoValue == 0 - 1

VARIABLES
    h,        \* h[c]: fingerprint argument of call c
    n,        \* n[c]: partition count argument of call c
    pc,       \* pc[c]: "entry", "attempt", "high", "low", "returned", "raised"
    s,        \* s[c]: tree size 2^k (NoValue before it is computed)
    t,        \* t[c]: retry offset (NoValue before it is created)
    loc,      \* loc[c]: the loop locals v, p, o and whether the descent broke
    branch,   \* branch[c]: branch taken by the current attempt
    rejected, \* rejected[c]: number of abandoned attempts so far
    result,   \* result[c]: returned value
    err,      \* err[c]: exception raised
    reads,    \* reads[c]: the positions passed to bit_function_B, in order
    oracle,   \* oracle[hh]: the bits of H(., hh) looked at so far
    trial,    \* uniformity run over one attempt: n, t and the next bit assignment
    counts    \* uniformity run: counts[v] = assignments that returned v

callVars == <<h, n, pc, s, t, loc, branch, rejected, result, err, reads, oracle>>
enumVars == <<trial, counts>>
vars == <<h, n, pc, s, t, loc, branch, rejected, result, err, reads, oracle, trial, counts>>

(***************************************************************************)
(* hash_function_H / bit_function_B                                        *)
(***************************************************************************)
hash_input(o) == o \div BitsPerBlock
bit_pos(o) == o % BitsPerBlock

\* y.to_bytes(4, 'little') raises OverflowError unless 0 <= y < 2^32
to_bytes_ok(y) == y >= 0 /\ y <= FieldMax

\* bit_function_B(o, hh) fails iff hash_function_H cannot pack o // 32
Fits(o) == to_bytes_ok(hash_input(o))

\* the values bit bit_pos(o) of H(hash_input(o), hh) can have: the recorded
\* one when some call has read it, either otherwise
bit_function_B(o, hh) ==
    LET key == <<hash_input(o), bit_pos(o)>>
    IN  IF key \in DOMAIN oracle[hh] THEN {oracle[hh][key]} ELSE {0, 1}

Learn(o, hh, b) ==
    LET key == <<hash_input(o), bit_pos(o)>>
    IN  [oracle EXCEPT ![hh] = (key :> b) @@ @]

(***************************************************************************)
(* magic_partition: the pieces of one loop iteration                       *)
(***************************************************************************)
Invalid_lt1(nn) == nn < MinPartitions - 1
Invalid(nn) == nn < MinPartitions

TreeBits(nn) == bit_length(nn - 1)
TreeSize(nn) == Pow2(TreeBits(nn))

InitialT_leaky(c) ==
    IF \E d \in Calls \ {c} : t[d] # NoValue
    THEN t[CHOOSE d \in Calls \ {c} : t[d] # NoValue]
    ELSE 0
InitialT(c) == 0

AttemptStart(ss) == [v |-> 0, p |-> ss \div 2, o |-> ss - 1, broke |-> FALSE]

RootPos(o, tt) == o + tt
HighPos(o, tt) == o + tt
LowPos_offset(o, tt) == o + tt
LowPos(o, tt) == o

Overflowed_early(v, nn) == v + 1 >= nn
Overflowed(v, nn) == v >= nn
Accepts_le(v, nn) == v <= nn
Accepts(v, nn) == v < nn

HighStart(st) == [st EXCEPT !.v = @ + st.p, !.o = @ - 1, !.p = @ \div 2]
LowStart_dec(st) == [st EXCEPT !.o = @ - 1, !.p = @ \div 2]
LowStart(st) == [st EXCEPT !.o = @ - st.p, !.p = @ \div 2]

HighBody(st, nn, b) ==
    IF b = 1
    THEN LET v2 == st.v + st.p
         IN  IF Overflowed(v2, nn)
             THEN [st EXCEPT !.v = v2, !.broke = TRUE]
             ELSE [st EXCEPT !.v = v2, !.o = @ - 1, !.p = @ \div 2]
    ELSE [st EXCEPT !.o = @ - st.p, !.p = @ \div 2]

LowBody_skip(st, b) == [st EXCEPT !.o = @ - st.p, !.p = @ \div 2]
LowBody(st, b) ==
    IF b = 1
    THEN [st EXCEPT !.v = @ + st.p, !.o = @ - 1, !.p = @ \div 2]
    ELSE [st EXCEPT !.o = @ - st.p, !.p = @ \div 2]

NextOffset_inc(tt, ss) == tt + 1
NextOffset(tt, ss) == tt + ss


(***************************************************************************)
(* One exhaustively driven attempt, as a function of a total oracle B      *)
(* (a function from positions to bits): the body of `while True`.          *)
(***************************************************************************)
RECURSIVE RunHigh(_, _, _, _)
RunHigh(B, st, nn, tt) ==
    IF st.broke \/ st.p < 1
    THEN st
    ELSE RunHigh(B, HighBody(st, nn, B[HighPos(st.o, tt)]), nn, tt)

RECURSIVE RunLow(_, _, _)
RunLow(B, st, tt) ==
    IF st.p < 1
    THEN st
    ELSE RunLow(B, LowBody(st, B[LowPos(st.o, tt)]), tt)

Attempt(B, nn, ss, tt) ==
    LET st0 == AttemptStart(ss)
    IN  IF B[RootPos(st0.o, tt)] = 1
        THEN LET e == RunHigh(B, HighStart(st0), nn, tt)
             IN  IF Accepts(e.v, nn)
                 THEN [kind |-> "returned", br |-> "high", v |-> e.v]
                 ELSE [kind |-> "rejected", br |-> "high", v |-> e.v]
        ELSE [kind |-> "returned", br |-> "low",
              v |-> RunLow(B, LowStart(st0), tt).v]

(***************************************************************************)
(* The calls: initial state and steps of magic_partition                   *)
(***************************************************************************)
Args ==
    /\ h \in [Calls -> Seeds]
    /\ \E n1 \in NValues : \E n2 \in {n1, n1 + 1} : n = (1 :> n1) @@ (2 :> n2)

Fresh ==
    /\ pc = [c \in Calls |-> "entry"]
    /\ s = [c \in Calls |-> NoValue]
    /\ t = [c \in Calls |-> NoValue]
    /\ loc = [c \in Calls |-> AttemptStart(0)]
    /\ branch = [c \in Calls |-> "none"]
    /\ rejected = [c \in Calls |-> 0]
    /\ result = [c \in Calls |-> NoValue]
    /\ err = [c \in Calls |-> "none"]
    /\ reads = [c \in Calls |-> <<>>]

EnumIdle ==
    /\ trial = [n |-> 0, t |-> 0, idx |-> 0]
    /\ counts = <<>>

Init ==
    /\ Args
    /\ Fresh
    /\ oracle = [hh \in Seeds |-> <<>>]
    /\ EnumIdle

ReadRec(pos, c, br, b) == [pos |-> pos, att |-> rejected[c], br |-> br, bit |-> b]

\* bit_function_B raised OverflowError out of magic_partition
Overflow(c, pos, br) ==
    /\ pc' = [pc EXCEPT ![c] = "raised"]
    /\ err' = [err EXCEPT ![c] = "OverflowError"]
    /\ reads' = [reads EXCEPT ![c] = Append(@, ReadRec(pos, c, br, NoValue))]
    /\ UNCHANGED <<loc, branch, oracle>>

Validate(c) ==
    /\ pc[c] = "entry"
    /\ IF Invalid(n[c])
       THEN /\ pc' = [pc EXCEPT ![c] = "raised"]
            /\ err' = [err EXCEPT ![c] = "ValueError"]
            /\ UNCHANGED <<s, t>>
       ELSE /\ s' = [s EXCEPT ![c] = TreeSize(n[c])]
            /\ t' = [t EXCEPT ![c] = InitialT(c)]
            /\ pc' = [pc EXCEPT ![c] = "attempt"]
            /\ UNCHANGED err
    /\ UNCHANGED <<h, n, loc, branch, rejected, result, reads, oracle, enumVars>>

Root(c) ==
    /\ pc[c] = "attempt"
    /\ LET st0 == AttemptStart(s[c])
           pos == RootPos(st0.o, t[c])
       IN  IF ~Fits(pos)
           THEN Overflow(c, pos, "root")
           ELSE \E b \in bit_function_B(pos, h[c]) :
                  /\ oracle' = Learn(pos, h[c], b)
                  /\ reads' = [reads EXCEPT ![c] = Append(@, ReadRec(pos, c, "root", b))]
                  /\ loc' = [loc EXCEPT ![c] = IF b = 1 THEN HighStart(st0) ELSE LowStart(st0)]
                  /\ branch' = [branch EXCEPT ![c] = IF b = 1 THEN "high" ELSE "low"]
                  /\ pc' = [pc EXCEPT ![c] = IF b = 1 THEN "high" ELSE "low"]
                  /\ UNCHANGED err
    /\ UNCHANGED <<h, n, s, t, rejected, result, enumVars>>

HighStep(c) ==
    /\ pc[c] = "high"
    /\ ~loc[c].broke
    /\ loc[c].p >= 1
    /\ LET pos == HighPos(loc[c].o, t[c])
       IN  IF ~Fits(pos)
           THEN Overflow(c, pos, "high")
           ELSE \E b \in bit_function_B(pos, h[c]) :
                  /\ oracle' = Learn(pos, h[c], b)
                  /\ reads' = [reads EXCEPT ![c] = Append(@, ReadRec(pos, c, "high", b))]
                  /\ loc' = [loc EXCEPT ![c] = HighBody(@, n[c], b)]
                  /\ UNCHANGED <<pc, err, branch>>
    /\ UNCHANGED <<h, n, s, t, rejected, result, enumVars>>

HighDone(c) == pc[c] = "high" /\ (loc[c].broke \/ loc[c].p < 1)

HighAccept(c) ==
    /\ HighDone(c)
    /\ Accepts(loc[c].v, n[c])
    /\ result' = [result EXCEPT ![c] = loc[c].v]
    /\ pc' = [pc EXCEPT ![c] = "returned"]
    /\ UNCHANGED <<h, n, s, t, loc, branch, rejected, err, reads, oracle, enumVars>>

Retry(c, limit) ==
    /\ HighDone(c)
    /\ ~Accepts(loc[c].v, n[c])
    /\ rejected[c] < limit
    /\ t' = [t EXCEPT ![c] = NextOffset(@, s[c])]
    /\ rejected' = [rejected EXCEPT ![c] = @ + 1]
    /\ branch' = [branch EXCEPT ![c] = "none"]
    /\ pc' = [pc EXCEPT ![c] = "attempt"]
    /\ UNCHANGED <<h, n, s, loc, result, err, reads, oracle, enumVars>>

LowStep(c) ==
    /\ pc[c] = "low"
    /\ loc[c].p >= 1
    /\ LET pos == LowPos(loc[c].o, t[c])
       IN  IF ~Fits(pos)
           THEN Overflow(c, pos, "low")
           ELSE \E b \in bit_function_B(pos, h[c]) :
                  /\ oracle' = Learn(pos, h[c], b)
                  /\ reads' = [reads EXCEPT ![c] = Append(@, ReadRec(pos, c, "low", b))]
                  /\ loc' = [loc EXCEPT ![c] = LowBody(@, b)]
                  /\ UNCHANGED <<pc, err, branch>>
    /\ UNCHANGED <<h, n, s, t, rejected, result, enumVars>>

LowReturn(c) ==
    /\ pc[c] = "low"
    /\ loc[c].p < 1
    /\ result' = [result EXCEPT ![c] = loc[c].v]
    /\ pc' = [pc EXCEPT ![c] = "returned"]
    /\ UNCHANGED <<h, n, s, t, loc, branch, rejected, err, reads, oracle, enumVars>>

Next ==
    \E c \in Calls :
        \/ Validate(c)
        \/ Root(c)
        \/ HighStep(c)
        \/ HighAccept(c)
        \/ Retry(c, MaxAttempts)
        \/ LowStep(c)
        \/ LowReturn(c)

Spec == Init /\ [][Next]_vars


(***************************************************************************)
(* One call against a broken oracle: every bit of every block is the same. *)
(***************************************************************************)
InitStuck ==
    /\ Args
    /\ Fresh
    /\ \E b \in {0, 1} :
         oracle = [hh \in Seeds |->
                     [key \in (0..FieldMax) \X (0..(BitsPerBlock - 1)) |-> b]]
    /\ EnumIdle

NextStuck ==
    \/ Validate(1)
    \/ Root(1)
    \/ HighStep(1)
    \/ HighAccept(1)
    \/ Retry(1, StuckAttempts)
    \/ LowStep(1)
    \/ LowReturn(1)

SpecStuck == InitStuck /\ [][NextStuck]_vars

(***************************************************************************)
(* The uniformity run (test_uniformity), made exhaustive: instead of       *)
(* random fingerprints, every assignment of bits to the s - 1 tree         *)
(* positions of one attempt at offset t is tried once and the returned     *)
(* index is counted.                                                       *)
(***************************************************************************)
BitOf(idx, i) == (idx \div Pow2(i)) % 2

\* assignment number idx as an oracle: bit j - 1 of idx sits at tree
\* position j, which is position j for the low half and j + tt for the root
\* and the high half
TrialOracle(idx, ss, tt) ==
    [pos \in 0..(tt + ss - 1) |->
        IF pos >= 1 /\ pos < ss \div 2 THEN BitOf(idx, pos - 1)
        ELSE IF pos >= tt + ss \div 2 THEN BitOf(idx, pos - tt - 1)
        ELSE 0]

Assignments(nn) == Pow2(TreeSize(nn) - 1)

CallsIdle ==
    /\ h = [c \in Calls |-> 0]
    /\ n = [c \in Calls |-> 0]
    /\ Fresh
    /\ oracle = [hh \in Seeds |-> <<>>]

InitEnum ==
    /\ CallsIdle
    /\ \E nn \in MinPartitions..(MaxN + 1) : \E a \in 0..MaxAttempts :
         /\ trial = [n |-> nn, t |-> a * TreeSize(nn), idx |-> 0]
         /\ counts = [l \in 0..(nn - 1) |-> 0]

Count ==
    /\ trial.idx < Assignments(trial.n)
    /\ LET ss == TreeSize(trial.n)
           out == Attempt(TrialOracle(trial.idx, ss, trial.t), trial.n, ss, trial.t)
       IN  counts' = IF out.kind = "returned"
                     THEN [counts EXCEPT ![out.v] = @ + 1]
                     ELSE counts
    /\ trial' = [trial EXCEPT !.idx = @ + 1]
    /\ UNCHANGED callVars

NextEnum == Count

SpecEnum == InitEnum /\ [][NextEnum]_vars


(***************************************************************************)
(* Properties                                                              *)
(***************************************************************************)
Returned(c) == pc[c] = "returned"
ReadsOf(c, kinds) == {i \in 1..Len(reads[c]) : reads[c][i].br \in kinds}
IsPow2(x) == x = Pow2(bit_length(x) - 1)

\* C1 (minimal disruption): when two finished calls have the same
\* fingerprint (hence the same oracle bits) and partition counts n >= 2 and
\* n + 1, the second result is the first result or the new partition n.
MinimalDisruption ==
    \A c, d \in Calls :
        (/\ h[c] = h[d]
         /\ n[c] >= 2
         /\ n[d] = n[c] + 1
         /\ Returned(c)
         /\ Returned(d))
        => result[d] \in {result[c], n[c]}

\* n = 4 -> 5 crosses a power of two (s = 4 and s = 8); the call with n = 5
\* abandoned an attempt and then agreed with the call with n = 4
MinimalDisruptionWitness ==
    /\ h[1] = h[2] /\ n[1] = 4 /\ n[2] = 5
    /\ Returned(1) /\ Returned(2)
    /\ rejected[2] >= 1
    /\ result[2] = result[1]
    /\ result[1] >= 2

\* the same tree size on both sides (3 -> 4), the fingerprint moving to the
\* new partition
MinimalDisruptionSameTree ==
    /\ h[1] = h[2] /\ n[1] = 3 /\ n[2] = 4
    /\ Returned(1) /\ Returned(2)
    /\ result[2] = 3 /\ result[1] # 3

\* C2 (range): every returned value v satisfies 0 <= v < n.
Range ==
    \A c \in Calls : Returned(c) => (0 <= result[c] /\ result[c] < n[c])

\* a value of the high branch returned after two abandoned attempts
RangeWitness ==
    \E c \in Calls :
        /\ Returned(c) /\ branch[c] = "high" /\ rejected[c] >= 2
        /\ result[c] = n[c] - 1

\* C3 (validation): a call with n < 2 never gets past its entry: it raises
\* ValueError with no oracle position read, no tree size or retry offset
\* created and no value returned.
Validation ==
    \A c \in Calls :
        n[c] < 2 =>
            /\ pc[c] \in {"entry", "raised"}
            /\ pc[c] = "raised" => err[c] = "ValueError"
            /\ reads[c] = <<>>
            /\ s[c] = NoValue /\ t[c] = NoValue
            /\ rejected[c] = 0
            /\ result[c] = NoValue

\* n = 1 has raised while nothing has been read for its fingerprint
ValidationWitness ==
    \E c \in Calls :
        /\ n[c] = 1 /\ pc[c] = "raised" /\ err[c] = "ValueError"
        /\ oracle[h[c]] = <<>>

\* C4 (determinism): two calls with the same (h, n) read the same positions
\* in the same attempts and see the same bits, as far as both have got, and
\* end alike; every call starts its retry offset at 0, however the calls are
\* interleaved.
Determinism ==
    /\ \A c \in Calls : (pc[c] = "attempt" /\ rejected[c] = 0) => t[c] = 0
    /\ \A c, d \in Calls :
         (h[c] = h[d] /\ n[c] = n[d]) =>
            /\ \A i \in 1..Len(reads[c]) :
                 i <= Len(reads[d]) => reads[c][i] = reads[d][i]
            /\ (pc[c] \in {"returned", "raised"} /\ pc[d] \in {"returned", "raised"})
                 => /\ pc[c] = pc[d]
                    /\ result[c] = result[d]
                    /\ err[c] = err[d]
                    /\ rejected[c] = rejected[d]
                    /\ reads[c] = reads[d]

\* call 2 was entered only after call 1 had moved its retry offset, and
\* both returned the same value after the same abandoned attempts
DeterminismWitness ==
    /\ h[1] = h[2] /\ n[1] = n[2]
    /\ Returned(1) /\ Returned(2)
    /\ rejected[1] >= 1
    /\ result[1] = result[2]
    /\ Len(reads[1]) >= 4

\* C5 (bounded retry), as claimed: once more than RetryBound attempts have
\* been abandoned the call has failed with an internal-invariant violation.
RetryIsBounded ==
    \A c \in Calls :
        rejected[c] > RetryBound =>
            (pc[c] = "raised" /\ err[c] = "InternalInvariantViolation")

\* C7 (no other error), as claimed: every position passed to
\* bit_function_B is non-negative with a block index that fits the field of
\* hash_function_H, and no call raises OverflowError.
OracleNeverFails ==
    \A c \in Calls :
        /\ err[c] # "OverflowError"
        /\ \A i \in 1..Len(reads[c]) :
             reads[c][i].pos >= 0 /\ hash_input(reads[c][i].pos) <= FieldMax

\* C9 (low branch never retries): an attempt whose root bit is 0 stays in
\* the low branch until it returns, reads only the un-offset positions
\* 1..s/2 - 1, one per level, and returns the leaf in [0, s/2) that the
\* recorded bits at those un-offset tree positions address.
OracleBit(hh, o) == oracle[hh][<<hash_input(o), bit_pos(o)>>]

RECURSIVE TreeLeaf(_, _, _, _)
TreeLeaf(hh, o, p, v) ==
    IF p < 1 THEN v
    ELSE IF OracleBit(hh, o) = 1
         THEN TreeLeaf(hh, o - 1, p \div 2, v + p)
         ELSE TreeLeaf(hh, o - p, p \div 2, v)

LowNeverRetries ==
    \A c \in Calls :
        /\ branch[c] = "low" => pc[c] \in {"low", "returned"}
        /\ \A i \in ReadsOf(c, {"low"}) :
             reads[c][i].pos \in 1..(s[c] \div 2 - 1)
        /\ (Returned(c) /\ branch[c] = "low") =>
             /\ reads[c][Len(reads[c]) - (TreeBits(n[c]) - 1)].br = "root"
             /\ reads[c][Len(reads[c]) - (TreeBits(n[c]) - 1)].bit = 0
             /\ reads[c][Len(reads[c]) - (TreeBits(n[c]) - 1)].att = rejected[c]
             /\ 0 <= result[c] /\ result[c] < s[c] \div 2 /\ result[c] < n[c]
             /\ result[c] = TreeLeaf(h[c], s[c] \div 2 - 1, s[c] \div 4, 0)

\* the low branch was taken by the third attempt (t = 2s) and returned a
\* non-zero leaf
LowNeverRetriesWitness ==
    \E c \in Calls :
        /\ Returned(c) /\ branch[c] = "low"
        /\ rejected[c] = 2 /\ t[c] = 2 * s[c]
        /\ result[c] = 3

\* C10 (disjoint sub-streams): t = i * s after i abandoned attempts; the
\* root and high-branch reads of attempt i lie in [i*s + s/2, i*s + s - 1],
\* the low-branch reads in [1, s/2 - 1]; no position is read twice by a call.
DisjointSubstreams ==
    \A c \in Calls :
        /\ t[c] # NoValue => t[c] = rejected[c] * s[c]
        /\ \A i \in ReadsOf(c, {"root", "high"}) :
             /\ reads[c][i].pos >= reads[c][i].att * s[c] + s[c] \div 2
             /\ reads[c][i].pos <= reads[c][i].att * s[c] + s[c] - 1
        /\ \A i \in ReadsOf(c, {"low"}) :
             reads[c][i].pos >= 1 /\ reads[c][i].pos <= s[c] \div 2 - 1
        /\ \A i, j \in 1..Len(reads[c]) :
             i # j => reads[c][i].pos # reads[c][j].pos

\* two attempts of an 8-leaf tree were abandoned before the call returned
DisjointSubstreamsWitness ==
    \E c \in Calls :
        /\ Returned(c) /\ rejected[c] = 2 /\ s[c] = 8
        /\ Cardinality(ReadsOf(c, {"high"})) >= 4

(***************************************************************************)
(* Properties of the uniformity run                                        *)
(***************************************************************************)
TrialSize == TreeSize(trial.n)
TrialDone == trial.n >= 2 /\ trial.idx = Assignments(trial.n)

\* the leaf an assignment addresses: the low branch's value, or the high
\* branch descended through all k - 1 levels with the overflow test left out
\* (no partial sum reaches 2s)
FullLeaf(idx, nn, tt) ==
    LET ss == TreeSize(nn)
        B == TrialOracle(idx, ss, tt)
        st0 == AttemptStart(ss)
    IN  IF B[RootPos(st0.o, tt)] = 1
        THEN RunHigh(B, HighStart(st0), 2 * ss, tt).v
        ELSE RunLow(B, LowStart(st0), tt).v

LeafCount(l, nn, tt) ==
    Cardinality({idx \in 0..(Assignments(nn) - 1) : FullLeaf(idx, nn, tt) = l})

\* C6 (uniformity conditional on acceptance): over all assignments of bits
\* to the s - 1 tree positions of an attempt, every leaf 0..s-1 is addressed
\* by the same number 2^(s-1-k) of assignments, and every index in [0, n) is
\* returned by that same number of assignments.
Uniform ==
    TrialDone =>
        LET each == Pow2(TrialSize - 1 - TreeBits(trial.n))
        IN  /\ \A l \in 0..(TrialSize - 1) : LeafCount(l, trial.n, trial.t) = each
            /\ DOMAIN counts = 0..(trial.n - 1)
            /\ \A v \in 0..(trial.n - 1) : counts[v] = each

\* all 128 assignments of an 8-leaf tree counted for n = 5 at offset t = 8
UniformWitness ==
    /\ TrialDone /\ trial.n = 5 /\ trial.t = 8
    /\ counts[4] = 16 /\ counts[0] = 16

\* C8 (early abandonment is exact): a high-branch attempt is abandoned iff
\* the leaf its bits address is >= n, and an accepted one returns that leaf.
EarlyAbandonExact ==
    (trial.n >= 2 /\ trial.idx < Assignments(trial.n)) =>
        LET out == Attempt(TrialOracle(trial.idx, TrialSize, trial.t),
                           trial.n, TrialSize, trial.t)
            full == FullLeaf(trial.idx, trial.n, trial.t)
        IN  out.br = "high" =>
              /\ (out.kind = "rejected") <=> (full >= trial.n)
              /\ out.kind = "returned" => out.v = full

\* an attempt abandoned at a partial sum below the leaf it was heading for
EarlyAbandonWitness ==
    /\ trial.n = 5 /\ trial.idx < Assignments(trial.n)
    /\ LET out == Attempt(TrialOracle(trial.idx, TrialSize, trial.t),
                          trial.n, TrialSize, trial.t)
       IN  /\ out.kind = "rejected"
           /\ out.v = 6
           /\ FullLeaf(trial.idx, trial.n, trial.t) = 7

====
